---- MODULE Spec2Model ----
(***************************************************************************)
(* Project matching engine of Auto-CV: EmbeddingService (index rebuild,    *)
(* persistence, multi-factor matching) and the routes of routes/jobs.py    *)
(* that drive it.                                                          *)
(*                                                                         *)
(* Scores are exact fixed-point integers:                                  *)
(*   semantic score   in 1/100                                             *)
(*   recency score    in 1/10                                              *)
(*   quality score    in 1/10000                                           *)
(*   overlap score    in 1/300                                             *)
(*   final score      in 1/600000000 (base in 1/300000, times the readme   *)
(*                    factor in 1/10, the core factor in 1/20 and the      *)
(*                    domain factor in 1/10)                               *)
(* Time is counted in whole days.                                          *)
(***************************************************************************)
EXTENDS Integers, Sequences, FiniteSets, TLC

\* ------------------------------------------------------------------ bounds
MaxK == 2
MaxTicks == 1
MaxTechs == 3

\* -------------------------------------------------------------- universe
Names == {"p1", "p2", "p3"}

\* The order in which a portfolio lists its repositories.
NameOrder == <<"p1", "p2", "p3">>

TopKs == -1 .. MaxK

Min(a, b) == IF a <= b THEN a ELSE b

SeqRange(s) == {s[i] : i \in 1 .. Len(s)}

\* ------------------------------------------------------- text normalizer
\* str.lower().strip() on the technology spellings the model uses.
LowerStrip(s) ==
  CASE s = "React.js"   -> "react.js"
    [] s = " React "    -> "react"
    [] s = "Python"     -> "python"
    [] s = "Python3"    -> "python3"
    [] s = "PY"         -> "py"
    [] s = "Docker"     -> "docker"
    [] s = "PostgreSQL" -> "postgresql"
    [] s = "TypeScript" -> "typescript"
    [] s = "Node.js"    -> "node.js"
    [] s = "PyTorch"    -> "pytorch"
    [] s = "  "         -> ""
    [] OTHER            -> s

\* The table with an alias that leads to another alias.
TechNormalizeChained(t) ==
  CASE t = "reactjs"                               -> "react.js"
    [] t \in {"react.js", "react js"}              -> "react"
    [] t = "javascript"                            -> "js"
    [] t \in {"python3", "py"}                     -> "python"
    [] t \in {"node.js", "node js"}                -> "nodejs"
    [] OTHER                                       -> t

\* self.tech_normalize.get(tech_lower, tech_lower)
TechNormalize(t) ==
  CASE t \in {"react.js", "reactjs", "react js"}   -> "react"
    [] t \in {"node.js", "node js"}                -> "nodejs"
    [] t \in {"vue.js", "vuejs"}                   -> "vue"
    [] t \in {"angular.js", "angularjs"}           -> "angular"
    [] t = "javascript"                            -> "js"
    [] t = "typescript"                            -> "ts"
    [] t \in {"python3", "py"}                     -> "python"
    [] t \in {"postgresql", "postgressql"}         -> "postgres"
    [] t \in {"mongodb", "mongoose"}               -> "mongo"
    [] t \in {"express.js", "expressjs"}           -> "express"
    [] t = "next.js"                               -> "nextjs"
    [] t = "nuxt.js"                               -> "nuxtjs"
    [] OTHER                                       -> t

RECURSIVE NormalizeFrom(_, _, _)
NormalizeFrom(technologies, i, normalized) ==
  IF i > Len(technologies) THEN normalized
  ELSE LET normalized_tech == TechNormalize(LowerStrip(technologies[i]))
       IN  IF normalized_tech # "" /\ normalized_tech \notin SeqRange(normalized)
           THEN NormalizeFrom(technologies, i + 1, Append(normalized, normalized_tech))
           ELSE NormalizeFrom(technologies, i + 1, normalized)

NormalizeTechnologies(technologies) == NormalizeFrom(technologies, 1, <<>>)

\* ------------------------------------------------------ scoring functions
\* The step function with its last band falling to zero.
CalculateRecencyScoreToZero(project, today) ==
  IF project.created_at < 0 THEN 5
  ELSE LET days_old == today - project.created_at
       IN  IF days_old <= 30 THEN 10
           ELSE IF days_old <= 90 THEN 9
           ELSE IF days_old <= 180 THEN 8
           ELSE IF days_old <= 365 THEN 6
           ELSE IF days_old <= 730 THEN 4
           ELSE 0

\* The step function with its two oldest bands exchanged.
CalculateRecencyScoreBandsExchanged(project, today) ==
  IF project.created_at < 0 THEN 5
  ELSE LET days_old == today - project.created_at
       IN  IF days_old <= 30 THEN 10
           ELSE IF days_old <= 90 THEN 9
           ELSE IF days_old <= 180 THEN 8
           ELSE IF days_old <= 365 THEN 6
           ELSE IF days_old <= 730 THEN 2
           ELSE 4

\* _calculate_recency_score: a step function of the age of created_at;
\* created_at < 0 stands for a missing timestamp.
CalculateRecencyScore(project, today) ==
  IF project.created_at < 0 THEN 5
  ELSE LET days_old == today - project.created_at
       IN  IF days_old <= 30 THEN 10
           ELSE IF days_old <= 90 THEN 9
           ELSE IF days_old <= 180 THEN 8
           ELSE IF days_old <= 365 THEN 6
           ELSE IF days_old <= 730 THEN 4
           ELSE 2

ReadmeQualityFactor(project) ==
  IF project.no_readme THEN 5 ELSE IF project.bad_readme THEN 8 ELSE 10

StarsFactor(stars) ==
  IF stars > 10 THEN 12 ELSE IF stars > 50 THEN 14 ELSE IF stars > 100 THEN 16 ELSE 10

ForksFactor(forks) ==
  IF forks > 5 THEN 11 ELSE IF forks > 20 THEN 13 ELSE 10

DiversityFactor(ntech) ==
  IF ntech > 3 THEN 11 ELSE IF ntech > 6 THEN 12 ELSE 10

\* _calculate_quality_score, in 1/10000; every factor is in 1/10.
CalculateQualityScore(project) ==
  LET score == ReadmeQualityFactor(project) * StarsFactor(project.stars)
                 * ForksFactor(project.forks)
                 * DiversityFactor(Len(project.technologies))
  IN  Min(score, 20000)

\* The bonus given only to a project with more technologies than the job.
CalculateTechnologyOverlapScoreStrictBonus(project_techs, job_techs) ==
  IF Len(job_techs) = 0 \/ Len(project_techs) = 0 THEN 0
  ELSE LET project_techs_norm == SeqRange(NormalizeTechnologies(project_techs))
           job_techs_norm == SeqRange(job_techs)
           overlap == Cardinality(project_techs_norm \cap job_techs_norm)
           total_job_techs == Cardinality(job_techs_norm)
           overlap_score == (300 * overlap) \div total_job_techs
           bonused == IF overlap > 0 /\ Cardinality(project_techs_norm) > total_job_techs
                      THEN (overlap_score * 12) \div 10
                      ELSE overlap_score
       IN  Min(bonused, 450)

\* _calculate_technology_overlap_score, in 1/300.
CalculateTechnologyOverlapScore(project_techs, job_techs) ==
  IF Len(job_techs) = 0 \/ Len(project_techs) = 0 THEN 0
  ELSE LET project_techs_norm == SeqRange(NormalizeTechnologies(project_techs))
           job_techs_norm == SeqRange(job_techs)
           overlap == Cardinality(project_techs_norm \cap job_techs_norm)
           total_job_techs == Cardinality(job_techs_norm)
           overlap_score == (300 * overlap) \div total_job_techs
           bonused == IF overlap > 0 /\ Cardinality(project_techs_norm) >= total_job_techs
                      THEN (overlap_score * 12) \div 10
                      ELSE overlap_score
       IN  Min(bonused, 450)

\* ------------------------------------------------------------ portfolio
\* The repositories of the portfolio owner as GitHub reports them. `para` is
\* the set of domain words that occur in the lower-cased detailed paragraph.
Repo(name) ==
  CASE name = "p1" ->
         [technologies |-> <<"React.js", "Node.js", "Python", "Docker",
                             "PostgreSQL", "TypeScript", "redis", "aws">>,
          bad_readme |-> FALSE, no_readme |-> FALSE, stars |-> 150, forks |-> 30,
          created_at |-> 100, updated_at |-> 990, para |-> {"online", "shop"}]
    [] name = "p2" ->
         [technologies |-> <<>>,
          bad_readme |-> TRUE, no_readme |-> TRUE, stars |-> 2, forks |-> 0,
          created_at |-> 200, updated_at |-> 200, para |-> {}]
    [] OTHER ->
         [technologies |-> <<"Python3", "PyTorch", "PY", "numpy">>,
          bad_readme |-> TRUE, no_readme |-> FALSE, stars |-> 60, forks |-> 6,
          created_at |-> 990, updated_at |-> 995, para |-> {"vision"}]

\* Project(...) as _process_repository builds it from a repository.
MkProject(name, updated_at, hidden) ==
  [name |-> name,
   technologies |-> Repo(name).technologies,
   bad_readme |-> Repo(name).bad_readme,
   no_readme |-> Repo(name).no_readme,
   stars |-> Repo(name).stars,
   forks |-> Repo(name).forks,
   created_at |-> Repo(name).created_at,
   updated_at |-> updated_at,
   detailed_paragraph |-> Repo(name).para,
   hidden_from_search |-> hidden]

\* ------------------------------------------------------------- embedding
\* self.model.encode is a deterministic black box. A project's weighted text
\* is fixed by its repository, so its vector is named after the project; a
\* query's vector is named after the topic of its weighted description.
\* Similarity is the inner product of the two normalized vectors, in 1/100.
EncodeProject(project) == project.name

EncodeQuery(job_text) == job_text.weighted_desc

\* The query vector of one transform set against project vectors of another
\* of the same dimension: the inner product is a number without meaning, of
\* which the model fixes one table.
Unrelated == "unrelated"

Similarity(query, vec) ==
  CASE query = "web"     -> (CASE vec = "p1" -> 80 [] vec = "p2" -> 30 [] OTHER -> 50)
    [] query = Unrelated -> (CASE vec = "p1" -> 10 [] vec = "p2" -> 60 [] OTHER -> 35)
    [] OTHER             -> (CASE vec = "p1" -> 20 [] vec = "p2" -> 40 [] OTHER -> 90)

\* --------------------------------------------------------- job requests
\* What GeminiService does for a job text: "ok" answers the parsed JSON,
\* "raises" fails in the call and "empty" answers {} (_extract_json found no
\* JSON in the reply).
NoInfo ==
  [core_technologies |-> <<>>, secondary_technologies |-> <<>>,
   technical_keywords |-> <<>>, domain_context |-> <<>>, weighted_description |-> ""]

Jobs ==
  { [text |-> "web", extractor |-> "ok",
     info |-> [core_technologies |-> <<"React.js", "python">>,
               secondary_technologies |-> <<"docker">>,
               technical_keywords |-> <<"rest">>,
               domain_context |-> <<"online", "shop", "web">>,
               weighted_description |-> "web"]],
    [text |-> "ml", extractor |-> "ok",
     info |-> [core_technologies |-> <<"python">>,
               secondary_technologies |-> <<>>,
               technical_keywords |-> <<>>,
               domain_context |-> <<>>,
               weighted_description |-> "ml"]],
    [text |-> "ml", extractor |-> "raises", info |-> NoInfo],
    [text |-> "web", extractor |-> "empty", info |-> NoInfo] }

\* len(keyword) for the domain words the model uses.
WordLen(w) == CASE w = "web" -> 3 [] w = "shop" -> 4 [] w = "online" -> 6 [] OTHER -> 6

\* ------------------------------------------------------- service state
NoProjects == [n \in {} |-> 0]

EmptyCache ==
  [present |-> FALSE, projects |-> NoProjects, project_names |-> <<>>,
   recency_scores |-> NoProjects, quality_scores |-> NoProjects]

\* self.model_name of this version of the service, and the names an earlier
\* deployment was configured with.
ModelName == "sentence-transformers/all-mpnet-base-v2"

OtherModelNames ==
  {"sentence-transformers/all-MiniLM-L6-v2", "sentence-transformers/all-distilroberta-v1"}

\* embeddings.shape[1]: the width of the vectors of a transform.
Dimension(model_name) ==
  IF model_name = "sentence-transformers/all-MiniLM-L6-v2" THEN 384 ELSE 768

\* `model` is the transform whose vectors the index holds.
NoIndex == [present |-> FALSE, vecs |-> <<>>, model |-> ""]

ServiceState(gemini, model_name) ==
  [index |-> NoIndex, project_mapping |-> <<>>, embeddings_cache |-> EmptyCache,
   gemini_service |-> gemini, model_name |-> model_name]

\* EmbeddingService.__init__: no index, empty mapping and cache;
\* gemini_service is FALSE for None, when GeminiService() could not be built.
NewServiceState(gemini) == ServiceState(gemini, ModelName)

\* The two files of app/data: each is missing, unreadable ("corrupt") or
\* holds what was last written ("ok").
EmptyDisk ==
  [index_file |-> [state |-> "missing", vecs |-> <<>>, model |-> ""],
   embeddings_file |-> [state |-> "missing", embeddings_cache |-> EmptyCache,
                        project_mapping |-> <<>>, model_name |-> ""]]

\* ------------------------------------------------------------ persistence
\* _save_embeddings: writes the index file, then the pickle of the cache and
\* the mapping.
SaveEmbeddings(svc, files) ==
  [index_file |-> [state |-> "ok", vecs |-> svc.index.vecs,
                   model |-> svc.index.model],
   embeddings_file |-> [state |-> "ok",
                        embeddings_cache |-> svc.embeddings_cache,
                        project_mapping |-> svc.project_mapping,
                        model_name |-> svc.model_name]]

\* An except branch that only prints.
ResetStateForgotten(svc) == svc

\* The except branch of _load_embeddings.
ResetState(svc) ==
  [svc EXCEPT !.index = NoIndex, !.embeddings_cache = EmptyCache,
              !.project_mapping = <<>>]

\* The load without the assignment of the mapping.
LoadEmbeddingsCacheOnly(svc, files) ==
  IF files.embeddings_file.state # "ok" \/ files.index_file.state # "ok"
  THEN [svc |-> ResetState(svc),
        load |-> IF "missing" \in {files.embeddings_file.state, files.index_file.state}
                 THEN "missing" ELSE "failed"]
  ELSE [svc |-> [svc EXCEPT
                   !.index = [present |-> TRUE, vecs |-> files.index_file.vecs,
                              model |-> files.index_file.model],
                   !.embeddings_cache = files.embeddings_file.embeddings_cache],
        load |-> "loaded"]

\* _load_embeddings: [svc, load], load saying how the attempt ended. The index
\* is assigned as soon as it is read, before the pickle is opened.
LoadEmbeddings(svc, files) ==
  IF files.embeddings_file.state = "missing" \/ files.index_file.state = "missing"
  THEN [svc |-> svc, load |-> "missing"]
  ELSE IF files.index_file.state # "ok"
  THEN [svc |-> ResetState(svc), load |-> "failed"]
  ELSE LET with_index ==
             [svc EXCEPT !.index = [present |-> TRUE,
                                    vecs |-> files.index_file.vecs,
                                    model |-> files.index_file.model]]
       IN  IF files.embeddings_file.state # "ok"
           THEN [svc |-> ResetState(with_index), load |-> "failed"]
           ELSE [svc |-> [with_index EXCEPT
                            !.embeddings_cache = files.embeddings_file.embeddings_cache,
                            !.project_mapping = files.embeddings_file.project_mapping],
                 load |-> "loaded"]

\* ------------------------------------------------------------- rebuild
VisibleProjects(projects) ==
  SelectSeq(projects, LAMBDA p : ~p.hidden_from_search)

ProjectNames(projects) == [i \in 1 .. Len(projects) |-> projects[i].name]

\* The project a dict comprehension keyed by project.name keeps for the
\* name n: the last one of that name.
LastOfName(projects, n) ==
  projects[CHOOSE i \in 1 .. Len(projects) :
             /\ projects[i].name = n
             /\ \A j \in (i + 1) .. Len(projects) : projects[j].name # n]

\* The names collected from the whole list instead of the visible projects.
CollectedNamesOfAll(projects, visible_projects) == ProjectNames(projects)

\* project_names, filled in the loop over visible_projects: the names the
\* mapping enumerates, in the order of the vectors.
CollectedNames(projects, visible_projects) == ProjectNames(visible_projects)

\* The dictionary of the rebuild before kept and updated with the new entries.
CachedProjectsUpserted(previous, visible_projects) ==
  [n \in DOMAIN previous \cup SeqRange(ProjectNames(visible_projects)) |->
     IF n \in SeqRange(ProjectNames(visible_projects))
     THEN LastOfName(visible_projects, n)
     ELSE previous[n]]

\* 'projects': {project.name: project for project in visible_projects}: a
\* new dictionary; the one of the rebuild before is not read.
CachedProjects(previous, visible_projects) ==
  [n \in SeqRange(ProjectNames(visible_projects)) |-> LastOfName(visible_projects, n)]

\* generate_embeddings_for_projects: [svc, files] after the call.
GenerateEmbeddingsForProjects(svc, files, projects, today) ==
  LET visible_projects == VisibleProjects(projects)
      project_names == CollectedNames(projects, visible_projects)
      visible_names == SeqRange(ProjectNames(visible_projects))
  IN  IF Len(visible_projects) = 0
      THEN [svc |-> svc, files |-> files]
      ELSE LET built ==
                 [svc EXCEPT
                    !.index = [present |-> TRUE,
                               vecs |-> [i \in 1 .. Len(visible_projects) |->
                                           EncodeProject(visible_projects[i])],
                               model |-> svc.model_name],
                    !.project_mapping = project_names,
                    !.embeddings_cache =
                       [present |-> TRUE,
                        projects |->
                          CachedProjects(svc.embeddings_cache.projects,
                                         visible_projects),
                        project_names |-> project_names,
                        recency_scores |->
                          [n \in visible_names |->
                             CalculateRecencyScore(LastOfName(visible_projects, n),
                                                   today)],
                        quality_scores |->
                          [n \in visible_names |->
                             CalculateQualityScore(LastOfName(visible_projects, n))]]]
           IN  [svc |-> built, files |-> SaveEmbeddings(built, files)]

\* ------------------------------------------------------------ extraction
FallbackInfo(job) == [NoInfo EXCEPT !.weighted_description = job.text]

\* The extraction without its try/except: a failure of the extractor escapes.
ExtractJobInformationUncaught(svc, job) ==
  IF ~svc.gemini_service \/ job.extractor = "raises"
  THEN [raised |-> TRUE, info |-> NoInfo]
  ELSE IF job.extractor = "empty"
  THEN [raised |-> FALSE, info |-> FallbackInfo(job)]
  ELSE [raised |-> FALSE, info |-> job.info]

\* _extract_job_information_with_gemini followed by the job_info.get(...)
\* defaults of find_matching_projects: [raised, info].
ExtractJobInformation(svc, job) ==
  IF ~svc.gemini_service \/ job.extractor = "raises"
  THEN [raised |-> FALSE, info |-> FallbackInfo(job)]
  ELSE IF job.extractor = "empty"
  THEN [raised |-> FALSE, info |-> FallbackInfo(job)]
  ELSE [raised |-> FALSE, info |-> job.info]

\* The text that is embedded for the job.
JobText(info) ==
  [weighted_desc |-> info.weighted_description,
   core |-> info.core_technologies,
   keywords |-> info.technical_keywords,
   domain |-> info.domain_context]

\* --------------------------------------------------------------- search
\* Whether position i comes before position j in the answer of
\* IndexFlatIP.search: by descending inner product, then by position.
Before(vecs, query, i, j) ==
  \/ Similarity(query, vecs[i]) > Similarity(query, vecs[j])
  \/ Similarity(query, vecs[i]) = Similarity(query, vecs[j]) /\ i < j

\* self.index.search(job_embedding, search_k) for search_k >= 1: the search_k
\* best positions (1-based here) with their scores, best first.
IndexSearch(vecs, query, search_k) ==
  LET rank(i) == Cardinality({j \in 1 .. Len(vecs) : Before(vecs, query, j, i)}) + 1
      at(r) == CHOOSE i \in 1 .. Len(vecs) : rank(i) = r
  IN  [r \in 1 .. Min(search_k, Len(vecs)) |->
         [semantic_score |-> Similarity(query, vecs[at(r)]), idx |-> at(r)]]

\* ------------------------------------------------------------- scoring
\* The README penalty with bad_readme tested first.
ReadmeFactorBadFirst(project) ==
  IF project.bad_readme THEN 7 ELSE IF project.no_readme THEN 5 ELSE 10

\* if project.no_readme: *= 0.5 elif project.bad_readme: *= 0.7, in 1/10.
ReadmeFactor(project) ==
  IF project.no_readme THEN 5 ELSE IF project.bad_readme THEN 7 ELSE 10

CoreMatchFactor(core_tech_overlap) ==
  IF core_tech_overlap > 180 THEN 26 ELSE IF core_tech_overlap > 90 THEN 23 ELSE 20

\* domain_context and any(keyword in paragraph for keyword in split if len > 3)
DomainFactor(project, info) ==
  IF \E i \in 1 .. Len(info.domain_context) :
       /\ WordLen(info.domain_context[i]) > 3
       /\ info.domain_context[i] \in project.detailed_paragraph
  THEN 11 ELSE 10

\* One turn of the candidate loop of find_matching_projects.
ScoreCandidate(project, semantic_score, recency_score, quality_score, info) ==
  LET core_tech_overlap ==
        CalculateTechnologyOverlapScore(project.technologies, info.core_technologies)
      secondary_tech_overlap ==
        CalculateTechnologyOverlapScore(project.technologies, info.secondary_technologies)
      base == 1050 * semantic_score
                + 40 * (8 * core_tech_overlap + 2 * secondary_tech_overlap)
                + 4500 * recency_score
                + 3 * quality_score
  IN  [name |-> project.name,
       final_score |-> base * ReadmeFactor(project)
                            * CoreMatchFactor(core_tech_overlap)
                            * DomainFactor(project, info),
       semantic_score |-> semantic_score,
       core_tech_overlap |-> core_tech_overlap,
       secondary_tech_overlap |-> secondary_tech_overlap,
       recency_score |-> recency_score,
       quality_score |-> quality_score]

\* Whether a search hit can be looked up in the mapping and the cache.
HitKnown(svc, hit) ==
  /\ hit.idx \in 1 .. Len(svc.project_mapping)
  /\ svc.embeddings_cache.present
  /\ svc.project_mapping[hit.idx] \in DOMAIN svc.embeddings_cache.projects
  /\ svc.project_mapping[hit.idx] \in DOMAIN svc.embeddings_cache.recency_scores
  /\ svc.project_mapping[hit.idx] \in DOMAIN svc.embeddings_cache.quality_scores

\* The recency recomputed on the day of the call.
RecencyScoreLive(svc, project_name, today) ==
  CalculateRecencyScore(svc.embeddings_cache.projects[project_name], today)

\* recency_score = self.embeddings_cache['recency_scores'][project_name]: the
\* value stored at rebuild; the day of the call is not consulted.
RecencyScoreAt(svc, project_name, today) ==
  svc.embeddings_cache.recency_scores[project_name]

\* The candidate loop over the search hits, hidden projects skipped.
RECURSIVE CandidatesFrom(_, _, _, _, _)
CandidatesFrom(svc, hits, i, info, today) ==
  IF i > Len(hits) THEN <<>>
  ELSE LET project_name == svc.project_mapping[hits[i].idx]
           project == svc.embeddings_cache.projects[project_name]
           rest == CandidatesFrom(svc, hits, i + 1, info, today)
       IN  IF project.hidden_from_search THEN rest
           ELSE <<ScoreCandidate(project, hits[i].semantic_score,
                                 RecencyScoreAt(svc, project_name, today),
                                 svc.embeddings_cache.quality_scores[project_name],
                                 info)>> \o rest

\* list.sort(key=final_score, reverse=True): stable, equal scores keep their order.
RECURSIVE InsertByScore(_, _)
InsertByScore(sorted, c) ==
  IF Len(sorted) = 0 THEN <<c>>
  ELSE IF sorted[Len(sorted)].final_score >= c.final_score THEN Append(sorted, c)
  ELSE Append(InsertByScore(SubSeq(sorted, 1, Len(sorted) - 1), c), sorted[Len(sorted)])

RECURSIVE SortFrom(_, _, _)
SortFrom(candidates, i, sorted) ==
  IF i > Len(candidates) THEN sorted
  ELSE SortFrom(candidates, i + 1, InsertByScore(sorted, candidates[i]))

\* The candidates left in search order.
SortSkipped(candidates) == candidates

\* A sort that puts the later of two equal scores first.
RECURSIVE InsertLaterFirst(_, _)
InsertLaterFirst(sorted, c) ==
  IF Len(sorted) = 0 THEN <<c>>
  ELSE IF sorted[Len(sorted)].final_score > c.final_score THEN Append(sorted, c)
  ELSE Append(InsertLaterFirst(SubSeq(sorted, 1, Len(sorted) - 1), c), sorted[Len(sorted)])

RECURSIVE SortLaterFirstFrom(_, _, _)
SortLaterFirstFrom(candidates, i, sorted) ==
  IF i > Len(candidates) THEN sorted
  ELSE SortLaterFirstFrom(candidates, i + 1, InsertLaterFirst(sorted, candidates[i]))

SortByFinalScoreLaterFirst(candidates) == SortLaterFirstFrom(candidates, 1, <<>>)

SortByFinalScore(candidates) == SortFrom(candidates, 1, <<>>)

\* The slice left out.
TakeAll(candidates, top_k) == candidates

\* candidate_projects[:top_k]
TakeTopK(candidates, top_k) ==
  IF top_k >= 0 THEN SubSeq(candidates, 1, Min(top_k, Len(candidates)))
  ELSE SubSeq(candidates, 1, Len(candidates) + top_k)

\* MatchedProject(project, similarity_score) for each kept candidate.
MatchedProjects(svc, candidates) ==
  [i \in 1 .. Len(candidates) |->
     [project |-> svc.embeddings_cache.projects[candidates[i].name],
      similarity_score |-> candidates[i].final_score]]

\* ---------------------------------------------------------------- match
\* index.search(x, k) refuses k <= 0 (assert k > 0) in current faiss; the
\* wrapper of faiss up to 1.7.2 answers k = 0 with empty arrays and fails
\* only on k < 0 (numpy refuses the negative shape).
SearchRaises(search_k, checks_k) == search_k < 0 \/ (search_k = 0 /\ checks_k)

\* index.search asserts that the query has the width of the index.
WidthMismatch(svc) == Dimension(svc.index.model) # Dimension(svc.model_name)

\* self.model.encode([job_text]) as the index sees it.
QueryVector(svc, job_text) ==
  IF svc.index.model = svc.model_name THEN EncodeQuery(job_text) ELSE Unrelated

\* find_matching_projects: the service after the call, how the load ended,
\* the outcome ("ok" or the exception raised), the job info used and the
\* returned list.
\* The load done on every call.
NeedsLoadAlways(svc) == TRUE

\* if not self.index or not self.embeddings_cache: self._load_embeddings()
NeedsLoad(svc) == ~svc.index.present \/ ~svc.embeddings_cache.present

\* The guard left out.
NotIndexedUnchecked(svc) == FALSE

\* if not self.index: raise RuntimeError("No embeddings found. ...")
NotIndexed(svc) == ~svc.index.present

FindMatchingProjects(svc0, files, job, top_k, today, checks_k) ==
  LET ld == IF NeedsLoad(svc0)
            THEN LoadEmbeddings(svc0, files)
            ELSE [svc |-> svc0, load |-> "none"]
      svc == ld.svc
      ex == ExtractJobInformation(svc, job)
      search_k == Min(top_k * 3, Len(svc.project_mapping))
      hits == IF search_k >= 1
              THEN IndexSearch(svc.index.vecs, QueryVector(svc, JobText(ex.info)),
                               search_k)
              ELSE <<>>
      fail(e, info) == [svc |-> svc, load |-> ld.load, outcome |-> e,
                        info |-> info, result |-> <<>>]
  IN  IF NotIndexed(svc) THEN fail("RuntimeError", NoInfo)
      ELSE IF ex.raised THEN fail("ExtractorError", NoInfo)
      ELSE IF WidthMismatch(svc) \/ SearchRaises(search_k, checks_k)
      THEN fail("SearchError", ex.info)
      ELSE IF \E i \in 1 .. Len(hits) : ~HitKnown(svc, hits[i])
      THEN fail("KeyError", ex.info)
      ELSE [svc |-> svc, load |-> ld.load, outcome |-> "ok", info |-> ex.info,
            result |-> MatchedProjects(svc,
                         TakeTopK(SortByFinalScore(
                                    CandidatesFrom(svc, hits, 1, ex.info, today)),
                                  top_k))]

\* -------------------------------------------------------------- routes
\* sorted(matched_projects, key=similarity_score, reverse=True): stable.
RECURSIVE InsertBySimilarity(_, _)
InsertBySimilarity(sorted, m) ==
  IF Len(sorted) = 0 THEN <<m>>
  ELSE IF sorted[Len(sorted)].similarity_score >= m.similarity_score
  THEN Append(sorted, m)
  ELSE Append(InsertBySimilarity(SubSeq(sorted, 1, Len(sorted) - 1), m),
              sorted[Len(sorted)])

RECURSIVE SortedFrom(_, _, _)
SortedFrom(matched, i, sorted) ==
  IF i > Len(matched) THEN sorted
  ELSE SortedFrom(matched, i + 1, InsertBySimilarity(sorted, matched[i]))

SortedBySimilarity(matched) == SortedFrom(matched, 1, <<>>)

\* match_projects_to_job on a service of its own: every exception raised in
\* the try block, the HTTPException(404) for an empty list included, is
\* caught by `except Exception` and answered with status 500.
MatchProjectsToJob(files, gemini, job, top_k, today, checks_k) ==
  LET r == FindMatchingProjects(NewServiceState(gemini), files, job, top_k,
                                today, checks_k)
      matched_projects == SortedBySimilarity(r.result)
  IN  IF r.outcome # "ok"
      THEN [find |-> r, status |-> 500, body |-> <<>>]
      ELSE IF Len(matched_projects) = 0
      THEN [find |-> r, status |-> 500, body |-> <<>>]
      ELSE [find |-> r, status |-> 200, body |-> matched_projects]

\* ---------------------------------------------------------------- state
VARIABLES
  svc,              \* the EmbeddingService instance in use
  files,            \* app/data/faiss_index.bin and app/data/embeddings.pkl
  now,              \* the current day
  checksK,          \* whether the installed faiss refuses k = 0
  last,             \* the call that just returned: its inputs and its answer
  rebuilt,          \* the list given to the last rebuild: its visible and hidden
                    \* names, and whether the instance in use was given it
  notIndexedRaised, \* whether the instance in use has raised "no embeddings"
  store,            \* app/data/projects.json: the saved list of projects
  prev,             \* the find call answered before the one in `last`
  calc,             \* the scoring function just applied: its input and output
  conc              \* a rebuild and a match request in progress in two threads

vars ==
  <<svc, files, now, checksK, last, rebuilt, notIndexedRaised, store, prev, calc,
    conc>>

NoJob == [text |-> "", extractor |-> "ok", info |-> NoInfo]

NoCall ==
  [op |-> "none", job |-> NoJob, top_k |-> 0, load |-> "none", outcome |-> "ok",
   info |-> NoInfo, result |-> <<>>, status |-> 0]

\* The lists a rebuild is given: the whole portfolio with any of its
\* projects hidden, or the empty portfolio.
ProjectLists ==
  { [i \in 1 .. Len(NameOrder) |->
       MkProject(NameOrder[i], Repo(NameOrder[i]).updated_at, NameOrder[i] \in hid)]
    : hid \in SUBSET Names } \cup {<<>>}

HiddenNames(projects) ==
  {projects[i].name : i \in {j \in 1 .. Len(projects) : projects[j].hidden_from_search}}

VisibleNames(projects) == SeqRange(ProjectNames(VisibleProjects(projects)))

NoPrev ==
  [valid |-> FALSE, job |-> NoJob, top_k |-> 0, gemini |-> FALSE, now |-> 0,
   outcome |-> "ok", result |-> <<>>]

NoCalc ==
  [op |-> "none", technologies |-> <<>>, job_techs |-> <<>>, stars |-> 0,
   forks |-> 0, created_at |-> 0, out |-> 0, out_seq |-> <<>>,
   stars_factor |-> 0, forks_factor |-> 0, diversity_factor |-> 0,
   project |-> MkProject("p2", 0, FALSE), info |-> NoInfo,
   score |-> ScoreCandidate(MkProject("p2", 0, FALSE), 0, 0, 0, NoInfo),
   candidates |-> <<>>, top_k |-> 0, ranked |-> <<>>]

\* writer: where the rebuilding thread is in _save_embeddings, and the state
\* it has built; reader: where the matching thread is in _load_embeddings,
\* and what it has read of the two files so far.
NoConc ==
  [writer |-> "idle", built |-> NewServiceState(TRUE),
   reader |-> "idle", view |-> EmptyDisk]

Init ==
  /\ svc \in {NewServiceState(g) : g \in BOOLEAN}
  /\ files = EmptyDisk
  /\ now = 1000
  /\ checksK \in BOOLEAN
  /\ last = NoCall
  /\ rebuilt = [called |-> FALSE, here |-> FALSE, visible |-> {}, hidden |-> {}]
  /\ notIndexedRaised = FALSE
  /\ store = <<>>
  /\ prev = NoPrev
  /\ calc = NoCalc
  /\ conc = NoConc

\* Calls are made one at a time: the next one starts when the caller has
\* taken the answer of the one before.
Idle == last.op = "none"

\* EmbeddingService(): a new instance replaces the one in use.
NewService ==
  /\ Idle
  /\ \E g \in BOOLEAN : svc' = NewServiceState(g)
  /\ svc' # svc
  /\ notIndexedRaised' = FALSE
  /\ rebuilt' = [rebuilt EXCEPT !.here = FALSE]
  /\ UNCHANGED <<files, now, checksK, last, store, prev, calc, conc>>

\* svc.generate_embeddings_for_projects(projects)
DoRebuild(projects) ==
  LET r == GenerateEmbeddingsForProjects(svc, files, projects, now)
  IN  /\ svc' = r.svc
      /\ files' = r.files
      /\ rebuilt' = [called |-> TRUE, here |-> TRUE,
                     visible |-> VisibleNames(projects),
                     hidden |-> HiddenNames(projects)]
      /\ last' = [NoCall EXCEPT !.op = "rebuild"]
      /\ UNCHANGED <<now, checksK, notIndexedRaised, store, calc, conc>>

Rebuild ==
  /\ Idle
  /\ \E projects \in ProjectLists : DoRebuild(projects)
  /\ UNCHANGED prev

\* svc.find_matching_projects(job_description, top_k)
DoFind(job, top_k) ==
  LET r == FindMatchingProjects(svc, files, job, top_k, now, checksK)
  IN  /\ svc' = r.svc
      /\ last' = [op |-> "find", job |-> job, top_k |-> top_k, load |-> r.load,
                  outcome |-> r.outcome, info |-> r.info, result |-> r.result,
                  status |-> 0]
      /\ notIndexedRaised' = (notIndexedRaised \/ r.outcome = "RuntimeError")
      /\ UNCHANGED <<files, now, checksK, rebuilt, store, calc, conc>>

Find ==
  /\ Idle
  /\ \E job \in Jobs, top_k \in TopKs : DoFind(job, top_k)
  /\ UNCHANGED prev

\* POST /match-projects: the route builds a service of its own.
MatchRoute ==
  /\ Idle
  /\ \E job \in Jobs, top_k \in TopKs, g \in BOOLEAN :
       LET r == MatchProjectsToJob(files, g, job, top_k, now, checksK)
       IN  /\ last' = [op |-> "match_route", job |-> job, top_k |-> top_k,
                       load |-> r.find.load, outcome |-> r.find.outcome,
                       info |-> r.find.info, result |-> r.body,
                       status |-> r.status]
           /\ UNCHANGED <<svc, files, now, checksK, rebuilt, notIndexedRaised, store,
               prev, calc, conc>>

\* The caller takes the answer.
Return ==
  /\ ~Idle
  /\ last' = NoCall
  /\ UNCHANGED <<svc, files, now, checksK, rebuilt, notIndexedRaised, store,
               prev, calc, conc>>

\* A file of app/data is deleted or damaged behind the service's back.
FileFault ==
  /\ Idle
  /\ \E f \in {"index_file", "embeddings_file"}, st \in {"missing", "corrupt"} :
       /\ files[f].state = "ok"
       /\ files' = [files EXCEPT ![f] = [EmptyDisk[f] EXCEPT !.state = st]]
       /\ UNCHANGED <<svc, now, checksK, last, rebuilt, notIndexedRaised, store,
               prev, calc, conc>>

\* A day boundary of datetime.now passes; forty days at a time.
Tick ==
  /\ Idle
  /\ now < 1000 + 40 * MaxTicks
  /\ now' = now + 40
  /\ UNCHANGED <<svc, files, checksK, last, rebuilt, notIndexedRaised, store,
               prev, calc, conc>>

Next == NewService \/ Rebuild \/ Find \/ MatchRoute \/ Return \/ FileFault \/ Tick

Spec == Init /\ [][Next]_vars

\* ------------------------------------------------- the same call repeated
\* A rebuild changes the persisted index: the comparison starts afresh.
DetRebuild ==
  /\ Idle
  /\ \E projects \in ProjectLists : DoRebuild(projects)
  /\ prev' = NoPrev

\* The first call is any call; the calls after it repeat its job and top_k.
DetFind ==
  /\ Idle
  /\ \E job \in Jobs, top_k \in TopKs :
       /\ prev.valid => (job = prev.job /\ top_k = prev.top_k)
       /\ DoFind(job, top_k)
  /\ UNCHANGED prev

\* The caller takes the answer and keeps the one of a find call.
DetReturn ==
  /\ ~Idle
  /\ last' = NoCall
  /\ prev' = IF last.op = "find"
             THEN [valid |-> TRUE, job |-> last.job, top_k |-> last.top_k,
                   gemini |-> svc.gemini_service, now |-> now,
                   outcome |-> last.outcome, result |-> last.result]
             ELSE prev
  /\ UNCHANGED <<svc, files, now, checksK, rebuilt, notIndexedRaised, store, calc,
               conc>>

DetNext == NewService \/ DetRebuild \/ DetFind \/ DetReturn \/ Tick

DetSpec == Init /\ [][DetNext]_vars

\* ------------------------------------------------------------ the routes
\* _process_repository: a new Project; hidden_from_search takes its default.
ProcessRepository(repo) == MkProject(repo.name, repo.updated_at, FALSE)

\* user.get_repos(type='owner') on the day of the scrape: a repository in
\* `pushed` was pushed to today; the others report the updated_at they had
\* when they were last processed.
OwnedRepos(existing_projects, pushed) ==
  [i \in 1 .. Len(NameOrder) |->
     [name |-> NameOrder[i],
      updated_at |->
        IF NameOrder[i] \in pushed THEN now
        ELSE IF NameOrder[i] \in SeqRange(ProjectNames(existing_projects))
        THEN LastOfName(existing_projects, NameOrder[i]).updated_at
        ELSE Repo(NameOrder[i]).updated_at]]

\* The loop of scrape_and_process_repos: a repository is skipped when the
\* store holds a project of its name that is up to date.
RECURSIVE ProcessedFrom(_, _, _, _)
ProcessedFrom(repos_to_process, existing_projects, i, projects) ==
  IF i > Len(repos_to_process) THEN projects
  ELSE LET repo == repos_to_process[i]
           up_to_date ==
             \E j \in 1 .. Len(existing_projects) :
               /\ existing_projects[j].name = repo.name
               /\ repo.updated_at <= existing_projects[j].updated_at
       IN  ProcessedFrom(repos_to_process, existing_projects, i + 1,
                         IF up_to_date THEN projects
                         ELSE Append(projects, ProcessRepository(repo)))

\* projects.extend(p for p in existing_projects if p.name not in {...})
ExtendWithExisting(projects, existing_projects) ==
  projects \o SelectSeq(existing_projects,
                        LAMBDA p : p.name \notin SeqRange(ProjectNames(projects)))

\* scraper.save_projects(projects): the list becomes the content of the store.
SaveProjects(projects) == projects

\* generate_embeddings_for_projects on the service a route has just built.
RouteGenerate(projects) ==
  GenerateEmbeddingsForProjects(NewServiceState(TRUE), files, projects, now).files

RouteAnswer(op, status) == [NoCall EXCEPT !.op = op, !.status = status]

\* scrape_and_process_repos: process, save, rebuild from the saved list.
ScrapeRoute ==
  /\ Idle
  /\ \E pushed \in SUBSET Names :
       LET projects ==
             ExtendWithExisting(ProcessedFrom(OwnedRepos(store, pushed), store, 1, <<>>),
                                store)
       IN  /\ store' = projects
           /\ files' = RouteGenerate(projects)
  /\ last' = RouteAnswer("scrape", 200)
  /\ UNCHANGED <<svc, now, checksK, rebuilt, notIndexedRaised, prev, calc, conc>>

\* POST /refresh-embeddings
RefreshRoute ==
  /\ Idle
  /\ IF store = <<>>
     THEN /\ last' = RouteAnswer("refresh", 500)
          /\ UNCHANGED files
     ELSE /\ files' = RouteGenerate(store)
          /\ last' = RouteAnswer("refresh", 200)
  /\ UNCHANGED <<svc, now, checksK, rebuilt, notIndexedRaised, store,
               prev, calc, conc>>

\* PATCH /projects/{project_name}/visibility
ToggleRoute ==
  /\ Idle
  /\ \E project_name \in Names, hidden_from_search \in BOOLEAN :
       LET found == {i \in 1 .. Len(store) : store[i].name = project_name}
           projects ==
             [i \in 1 .. Len(store) |->
                IF i \in found
                THEN [store[i] EXCEPT !.hidden_from_search = hidden_from_search]
                ELSE store[i]]
       IN  IF found = {}
           THEN /\ last' = RouteAnswer("toggle", 500)
                /\ UNCHANGED <<store, files>>
           ELSE /\ store' = SaveProjects(projects)
                /\ files' = IF VisibleProjects(projects) # <<>>
                            THEN RouteGenerate(projects)
                            ELSE files
                /\ last' = RouteAnswer("toggle", 200)
  /\ UNCHANGED <<svc, now, checksK, rebuilt, notIndexedRaised, prev, calc, conc>>

RouteNext ==
  ScrapeRoute \/ RefreshRoute \/ ToggleRoute \/ MatchRoute \/ Return \/ Tick

RouteSpec == Init /\ [][RouteNext]_vars

\* ------------------------------------------- files of an earlier deployment
\* A deployment configured with another transform rebuilds and saves; the
\* service is then restarted in this version.
EarlierDeploymentRebuild ==
  /\ Idle
  /\ \E projects \in ProjectLists, model_name \in OtherModelNames, g \in BOOLEAN :
       /\ files' = GenerateEmbeddingsForProjects(ServiceState(TRUE, model_name),
                                                 files, projects, now).files
       /\ svc' = NewServiceState(g)
       /\ rebuilt' = [called |-> TRUE, here |-> FALSE,
                      visible |-> VisibleNames(projects),
                      hidden |-> HiddenNames(projects)]
  /\ last' = [NoCall EXCEPT !.op = "rebuild"]
  /\ notIndexedRaised' = FALSE
  /\ UNCHANGED <<now, checksK, store, prev, calc, conc>>

TagNext == EarlierDeploymentRebuild \/ NewService \/ Rebuild \/ Find \/ Return

TagSpec == Init /\ [][TagNext]_vars

\* ------------------------------------------------- a crash while saving
\* The points of _save_embeddings at which the process can stop with the
\* files changed: inside faiss.write_index, between the two writes, and
\* inside the write of the pickle, whose file open(.., 'wb') has truncated.
CrashPoints == {"writing_index", "index_written", "writing_cache"}

\* The files a save leaves behind when the process stops at `point`.
SaveEmbeddingsUpTo(built, disk, point) ==
  LET saved == SaveEmbeddings(built, disk)
  IN  CASE point = "writing_index" ->
             [disk EXCEPT !.index_file = [EmptyDisk.index_file EXCEPT
                                             !.state = "corrupt"]]
        [] point = "index_written" ->
             [disk EXCEPT !.index_file = saved.index_file]
        [] OTHER ->
             [index_file |-> saved.index_file,
              embeddings_file |-> [EmptyDisk.embeddings_file EXCEPT
                                     !.state = "corrupt"]]

\* generate_embeddings_for_projects reaches _save_embeddings and the process
\* stops inside it; the service is started again.
RebuildCrash ==
  /\ Idle
  /\ \E projects \in ProjectLists, point \in CrashPoints, g \in BOOLEAN :
       /\ VisibleProjects(projects) # <<>>
       /\ files' = SaveEmbeddingsUpTo(
                     GenerateEmbeddingsForProjects(svc, files, projects, now).svc,
                     files, point)
       /\ svc' = NewServiceState(g)
       /\ rebuilt' = [called |-> TRUE, here |-> FALSE,
                      visible |-> VisibleNames(projects),
                      hidden |-> HiddenNames(projects)]
  /\ last' = [NoCall EXCEPT !.op = "crash"]
  /\ notIndexedRaised' = FALSE
  /\ UNCHANGED <<now, checksK, store, prev, calc, conc>>

CrashNext == Rebuild \/ RebuildCrash \/ NewService \/ Find \/ Return

CrashSpec == Init /\ [][CrashNext]_vars

\* ------------------------------------ a match request during a rebuild
\* Both run in threads of the server, each on an EmbeddingService of its own,
\* and meet in the two files. The rebuilding thread moves through the points
\* of _save_embeddings; the matching thread reads the index file first and
\* the pickle later.
WriterBegin ==
  /\ conc.writer = "idle"
  /\ \E projects \in ProjectLists :
       /\ VisibleProjects(projects) # <<>>
       /\ LET built == GenerateEmbeddingsForProjects(NewServiceState(TRUE), files,
                                                     projects, now).svc
          IN  /\ conc' = [conc EXCEPT !.writer = "writing_index", !.built = built]
              /\ files' = SaveEmbeddingsUpTo(built, files, "writing_index")
  /\ UNCHANGED <<svc, now, checksK, last, rebuilt, notIndexedRaised, store,
                 prev, calc>>

WriterStep ==
  /\ conc.writer \in {"writing_index", "index_written"}
  /\ LET point == IF conc.writer = "writing_index"
                  THEN "index_written" ELSE "writing_cache"
     IN  /\ conc' = [conc EXCEPT !.writer = point]
         /\ files' = SaveEmbeddingsUpTo(conc.built, files, point)
  /\ UNCHANGED <<svc, now, checksK, last, rebuilt, notIndexedRaised, store,
                 prev, calc>>

WriterEnd ==
  /\ conc.writer = "writing_cache"
  /\ conc' = [conc EXCEPT !.writer = "idle", !.built = NoConc.built]
  /\ files' = SaveEmbeddings(conc.built, files)
  /\ UNCHANGED <<svc, now, checksK, last, rebuilt, notIndexedRaised, store,
                 prev, calc>>

\* _load_embeddings up to faiss.read_index: the two os.path.exists tests and
\* the index file, as they are now.
ReaderBegin ==
  /\ conc.reader = "idle"
  /\ conc' = [conc EXCEPT
                !.reader = "index_read",
                !.view = [index_file |-> files.index_file,
                          embeddings_file |->
                            [EmptyDisk.embeddings_file EXCEPT
                               !.state = IF files.embeddings_file.state = "missing"
                                         THEN "missing" ELSE "ok"]]]
  /\ UNCHANGED <<svc, files, now, checksK, last, rebuilt, notIndexedRaised,
                 store, prev, calc>>

\* The rest of the request: the pickle as it is now, then the match. A
\* request that found a file missing or the index unreadable has stopped
\* before it opens the pickle.
ReaderEnd ==
  /\ conc.reader = "index_read"
  /\ \E job \in Jobs, top_k \in TopKs :
       LET stopped == \/ conc.view.index_file.state # "ok"
                      \/ conc.view.embeddings_file.state = "missing"
           view == IF stopped THEN conc.view
                   ELSE [conc.view EXCEPT !.embeddings_file = files.embeddings_file]
           r == MatchProjectsToJob(view, svc.gemini_service, job, top_k, now,
                                   checksK)
       IN  /\ conc' = [conc EXCEPT !.reader = "done", !.view = view]
           /\ last' = [op |-> "match_route", job |-> job, top_k |-> top_k,
                       load |-> r.find.load, outcome |-> r.find.outcome,
                       info |-> r.find.info, result |-> r.body,
                       status |-> r.status]
  /\ UNCHANGED <<svc, files, now, checksK, rebuilt, notIndexedRaised, store,
                 prev, calc>>

ReaderReturn ==
  /\ conc.reader = "done"
  /\ conc' = [conc EXCEPT !.reader = "idle", !.view = EmptyDisk]
  /\ last' = NoCall
  /\ UNCHANGED <<svc, files, now, checksK, rebuilt, notIndexedRaised, store,
                 prev, calc>>

ConcNext ==
  WriterBegin \/ WriterStep \/ WriterEnd \/ ReaderBegin \/ ReaderEnd \/ ReaderReturn

\* Neither thread's steps depend on the extractor or on the faiss build.
ConcInit == Init /\ svc.gemini_service /\ checksK

ConcSpec == ConcInit /\ [][ConcNext]_vars

\* ------------------------------------------------ the scoring functions
\* Spellings of technology names, with aliases, padding and a blank.
TechSpellings ==
  {"React.js", " React ", "reactjs", "react", "Python3", "PY", "python",
   "Node.js", "Docker", "  ", "javascript", "js"}

TechLists == UNION {[1 .. n -> TechSpellings] : n \in 0 .. MaxTechs}

\* Technology lists of a job as the extractor spells them.
JobTechLists ==
  {<<>>, <<"react">>, <<"react", "python">>, <<"React.js", "python", "docker">>,
   <<"python", "python">>, <<"react", "js", "docker">>}

StarsValues == {0, 10, 11, 50, 51, 100, 101}
ForksValues == {0, 5, 6, 20, 21}
DiversityLengths == {0, 3, 4, 6, 7}

\* created_at: missing (-1), in the future, and on both sides of every band.
CreatedAtValues ==
  {-1} \cup {now - d : d \in {-5, 0, 30, 31, 90, 91, 180, 181, 365, 366, 730, 731}}

CalcProject(stars, forks, ntech, no_readme, bad_readme, created_at) ==
  [MkProject("p1", Repo("p1").updated_at, FALSE) EXCEPT
     !.stars = stars, !.forks = forks,
     !.technologies = SubSeq(Repo("p1").technologies, 1, ntech),
     !.no_readme = no_readme, !.bad_readme = bad_readme,
     !.created_at = created_at]

\* One function is applied at a time; its result is taken before the next.
CalcIdle == calc.op = "none"

\* self._normalize_technologies(technologies)
CalcNormalize ==
  /\ CalcIdle
  /\ \E technologies \in TechLists :
       calc' = [NoCalc EXCEPT !.op = "normalize", !.technologies = technologies,
                              !.out_seq = NormalizeTechnologies(technologies)]
  /\ UNCHANGED <<svc, files, now, checksK, last, rebuilt, notIndexedRaised, store, prev,
               conc>>

\* self._calculate_technology_overlap_score(project_techs, job_techs)
CalcOverlap ==
  /\ CalcIdle
  /\ \E project_techs \in TechLists, job_techs \in JobTechLists :
       calc' = [NoCalc EXCEPT
                  !.op = "overlap", !.technologies = project_techs,
                  !.job_techs = job_techs,
                  !.out = CalculateTechnologyOverlapScore(project_techs, job_techs)]
  /\ UNCHANGED <<svc, files, now, checksK, last, rebuilt, notIndexedRaised, store, prev,
               conc>>

\* self._calculate_quality_score(project); the factor each of the three
\* bonus blocks multiplied the score by is kept next to the result.
CalcQuality ==
  /\ CalcIdle
  /\ \E stars \in StarsValues, forks \in ForksValues, ntech \in DiversityLengths,
        no_readme \in BOOLEAN, bad_readme \in BOOLEAN :
       LET project == CalcProject(stars, forks, ntech, no_readme, bad_readme, 0)
       IN  calc' = [NoCalc EXCEPT
                      !.op = "quality", !.technologies = project.technologies,
                      !.stars = stars, !.forks = forks,
                      !.out = CalculateQualityScore(project),
                      !.stars_factor = StarsFactor(project.stars),
                      !.forks_factor = ForksFactor(project.forks),
                      !.diversity_factor = DiversityFactor(Len(project.technologies))]
  /\ UNCHANGED <<svc, files, now, checksK, last, rebuilt, notIndexedRaised, store, prev,
               conc>>

\* self._calculate_recency_score(project)
CalcRecency ==
  /\ CalcIdle
  /\ \E created_at \in CreatedAtValues :
       LET project == CalcProject(0, 0, 0, FALSE, FALSE, created_at)
       IN  calc' = [NoCalc EXCEPT !.op = "recency", !.created_at = created_at,
                                  !.out = CalculateRecencyScore(project, now)]
  /\ UNCHANGED <<svc, files, now, checksK, last, rebuilt, notIndexedRaised, store, prev,
               conc>>

\* The projects a candidate loop meets: the portfolio's, with every state of
\* the two README flags.
ScoreProjects ==
  { [MkProject(n, Repo(n).updated_at, FALSE) EXCEPT
       !.no_readme = no_readme, !.bad_readme = bad_readme]
    : n \in Names, no_readme \in BOOLEAN, bad_readme \in BOOLEAN }

\* The job information find_matching_projects works with.
JobInfos == {ExtractJobInformation(NewServiceState(TRUE), job).info : job \in Jobs}

SemanticScores == {0, 50, 100}
RecencyScores == {2, 10}
QualityScores == {5000, 20000}

\* One turn of the candidate loop (lines 310-361).
CalcScore ==
  /\ CalcIdle
  /\ \E project \in ScoreProjects, info \in JobInfos,
        semantic_score \in SemanticScores, recency_score \in RecencyScores,
        quality_score \in QualityScores :
       calc' = [NoCalc EXCEPT
                  !.op = "score", !.project = project, !.info = info,
                  !.score = ScoreCandidate(project, semantic_score, recency_score,
                                           quality_score, info)]
  /\ UNCHANGED <<svc, files, now, checksK, last, rebuilt, notIndexedRaised, store, prev,
               conc>>

\* Candidate lists in search order, with final scores that can be equal.
FinalScores == {100, 200}

CandidateLists ==
  UNION { { [i \in 1 .. n |-> [name |-> NameOrder[i], final_score |-> f[i]]]
            : f \in [1 .. n -> FinalScores] }
          : n \in 0 .. Len(NameOrder) }

\* candidate_projects.sort(...) and candidate_projects[:top_k] (lines 364, 367).
CalcRank ==
  /\ CalcIdle
  /\ \E candidates \in CandidateLists, top_k \in TopKs :
       calc' = [NoCalc EXCEPT
                  !.op = "rank", !.candidates = candidates, !.top_k = top_k,
                  !.ranked = TakeTopK(SortByFinalScore(candidates), top_k)]
  /\ UNCHANGED <<svc, files, now, checksK, last, rebuilt, notIndexedRaised, store, prev,
               conc>>

\* The result is taken.
CalcReturn ==
  /\ ~CalcIdle
  /\ calc' = NoCalc
  /\ UNCHANGED <<svc, files, now, checksK, last, rebuilt, notIndexedRaised, store, prev,
               conc>>

CalcNext ==
  \/ CalcNormalize \/ CalcOverlap \/ CalcQuality \/ CalcRecency
  \/ CalcScore \/ CalcRank \/ CalcReturn

\* The functions read nothing of the service but its normalization table.
CalcInit == Init /\ svc.gemini_service /\ checksK

CalcSpec == CalcInit /\ [][CalcNext]_vars

\* ================================================================ claims
ResultNames(result) == {result[i].project.name : i \in 1 .. Len(result)}

Answered == last.op \in {"find", "match_route"} /\ last.outcome = "ok"

\* C1: no project that was hidden in the list given to the last rebuild is
\* returned by a later find_matching_projects call (or match route).
C1_HiddenNeverReturned ==
  Answered => ResultNames(last.result) \cap rebuilt.hidden = {}

\* C3: after a rebuild with zero visible projects, every find_matching_projects
\* call with a positive top_k on that instance returns the empty list and
\* raises nothing.
C3_EmptyRebuildLeavesEmptyIndex ==
  (/\ last.op = "find"
   /\ last.top_k >= 1
   /\ rebuilt.here
   /\ rebuilt.visible = {})
  => (last.outcome = "ok" /\ last.result = <<>>)

\* C4: a find_matching_projects call that has no index in memory and can load
\* none raises RuntimeError and returns nothing; the instance stays usable:
\* once it holds an index again, a call with top_k >= 1 returns matches.
C4_NotIndexedIsRecoverable ==
  /\ (last.op = "find" /\ last.load \in {"missing", "failed"})
       => (last.outcome = "RuntimeError" /\ last.result = <<>>)
  /\ (last.op = "find" /\ notIndexedRaised /\ svc.index.present /\ last.top_k >= 1)
       => (last.outcome = "ok" /\ Len(last.result) >= 1)

\* C4 witness: an instance that raised RuntimeError answers matches later.
C4_Witness ==
  /\ last.op = "find"
  /\ notIndexedRaised
  /\ last.outcome = "ok"
  /\ Len(last.result) >= 1

\* C5: a returned list is no longer than max(top_k, 0) and no longer than the
\* number of indexed projects.
C5_TopKBound ==
  (last.op = "find" /\ last.outcome = "ok")
  => /\ Len(last.result) <= (IF last.top_k > 0 THEN last.top_k ELSE 0)
     /\ Len(last.result) <= Len(svc.project_mapping)

\* C5 witness: three projects are indexed and top_k = 1 cuts the list to one.
C5_Witness ==
  /\ last.op = "find"
  /\ last.outcome = "ok"
  /\ last.top_k = 1
  /\ Len(svc.project_mapping) = 3
  /\ Len(last.result) = 1

\* C6: find_matching_projects with top_k <= 0 on a non-empty built index
\* returns the empty list and does not raise.
C6_NonPositiveTopKIsEmpty ==
  (/\ last.op = "find"
   /\ last.top_k <= 0
   /\ svc.index.present
   /\ Len(svc.project_mapping) >= 1)
  => (last.outcome = "ok" /\ last.result = <<>>)

\* C7: the list returned by find_matching_projects and the list answered by
\* the match route are sorted by non-increasing similarity_score.
C7_SortedByScore ==
  last.op \in {"find", "match_route"}
  => \A i \in 1 .. Len(last.result) - 1 :
       last.result[i].similarity_score >= last.result[i + 1].similarity_score

\* C7 witness: two matches whose final order reverses their semantic order.
C7_Witness ==
  /\ last.op = "find"
  /\ Len(last.result) = 2
  /\ last.result[1].similarity_score > last.result[2].similarity_score
  /\ Similarity(EncodeQuery(JobText(last.info)), EncodeProject(last.result[1].project))
       < Similarity(EncodeQuery(JobText(last.info)), EncodeProject(last.result[2].project))

ExtractorDown ==
  \/ ~svc.gemini_service
  \/ last.job.extractor \in {"raises", "empty"}

\* C9: with the extractor unavailable, raising or answering {}, a call on an
\* indexed service never fails on the extraction; it uses empty technology
\* and keyword lists with the raw job text as weighted description, and with
\* top_k >= 1 it returns a ranking.
C9_ExtractorFailureDegrades ==
  (last.op = "find" /\ ExtractorDown /\ svc.index.present)
  => /\ last.outcome # "ExtractorError"
     /\ last.top_k >= 1
          => /\ last.outcome = "ok"
             /\ Len(last.result) >= 1
             /\ last.info.core_technologies = <<>>
             /\ last.info.secondary_technologies = <<>>
             /\ last.info.technical_keywords = <<>>
             /\ last.info.weighted_description = last.job.text

\* C9 witness: the extractor raised and two projects were still ranked.
C9_Witness ==
  /\ last.op = "find"
  /\ svc.gemini_service
  /\ last.job.extractor = "raises"
  /\ last.outcome = "ok"
  /\ Len(last.result) = 2

FilesUnloadable ==
  files.index_file.state # "ok" \/ files.embeddings_file.state # "ok"

\* C10: a load that finds the index file or the cache file missing or
\* unreadable leaves index, cache and mapping all empty, and the call that
\* made it raises RuntimeError as in the not-indexed case.
C10_FailedLoadResetsTogether ==
  (last.op = "find" /\ last.load # "none" /\ FilesUnloadable)
  => /\ ~svc.index.present
     /\ ~svc.embeddings_cache.present
     /\ svc.project_mapping = <<>>
     /\ last.outcome = "RuntimeError"

\* C10 witness: the index file was read and the cache file was unreadable.
C10_Witness ==
  /\ last.op = "find"
  /\ last.load = "failed"
  /\ files.index_file.state = "ok"
  /\ files.embeddings_file.state = "corrupt"
  /\ last.outcome = "RuntimeError"

\* C11: a load that finds the cache tagged with another transform than the
\* service's own detects it and leaves the service not indexed: the call
\* (top_k >= 1) raises the not-indexed RuntimeError and serves nothing from
\* those vectors.
C11_MismatchedTagIsRejected ==
  (/\ last.op = "find"
   /\ last.top_k >= 1
   /\ last.load = "loaded"
   /\ files.embeddings_file.model_name # svc.model_name)
  => /\ last.outcome = "RuntimeError"
     /\ last.result = <<>>
     /\ ~svc.index.present

\* Nothing was ever saved, or the two files are whole and hold the index, the
\* mapping and the cache of one rebuild.
CompletePair(disk) ==
  \/ disk = EmptyDisk
  \/ /\ disk.index_file.state = "ok"
     /\ disk.embeddings_file.state = "ok"
     /\ disk.index_file.vecs = disk.embeddings_file.project_mapping
     /\ disk.index_file.model = disk.embeddings_file.model_name
     /\ disk.embeddings_file.embeddings_cache.project_names
          = disk.embeddings_file.project_mapping

\* C12: wherever the process stops inside _save_embeddings, the index file
\* and the cache file are together a complete pair of one rebuild, never a new
\* index with the old cache and never a partly written file.
C12_SaveIsAtomic == CompletePair(files)

\* C13: a match request that runs while a rebuild is saving loads an index, a
\* mapping and a cache that belong to one rebuild.
C13_ReaderSeesOneRebuild ==
  (conc.reader = "done" /\ last.load = "loaded") => CompletePair(conc.view)

\* Positions 1..n of the mapping name the projects of the n vectors, no name
\* twice, and the cache has a project, a recency score and a quality score
\* for each of them.
MappingConsistent(index, project_mapping, embeddings_cache) ==
  /\ Len(project_mapping) = Len(index.vecs)
  /\ \A i \in 1 .. Len(project_mapping) :
       /\ index.vecs[i] = project_mapping[i]
       /\ \A j \in 1 .. Len(project_mapping) :
            project_mapping[i] = project_mapping[j] => i = j
       /\ project_mapping[i] \in DOMAIN embeddings_cache.projects
       /\ project_mapping[i] \in DOMAIN embeddings_cache.recency_scores
       /\ project_mapping[i] \in DOMAIN embeddings_cache.quality_scores

\* C14: in every state reached by rebuilds, saves and loads the mapping is a
\* bijection between the positions of the index and the indexed names, and
\* each mapped name has its cache entries, in memory and in the saved pair;
\* no lookup of find_matching_projects misses.
C14_MappingIsBijective ==
  /\ MappingConsistent(svc.index, svc.project_mapping, svc.embeddings_cache)
  /\ (files.index_file.state = "ok" /\ files.embeddings_file.state = "ok")
       => MappingConsistent(files.index_file, files.embeddings_file.project_mapping,
                            files.embeddings_file.embeddings_cache)
  /\ last.op \in {"find", "match_route"} => last.outcome # "KeyError"

\* C14 witness: a new instance has loaded a saved pair of two projects, one
\* project of the list being hidden, and has answered from it.
C14_Witness ==
  /\ last.op = "find"
  /\ last.load = "loaded"
  /\ last.outcome = "ok"
  /\ Len(svc.project_mapping) = 2
  /\ Len(svc.index.vecs) = 2
  /\ Cardinality(rebuilt.hidden) = 1

\* The instance in use has saved the pair that is on disk.
SavedHere ==
  /\ rebuilt.here
  /\ rebuilt.visible # {}
  /\ svc.index.present
  /\ files.index_file.state = "ok"
  /\ files.embeddings_file.state = "ok"

Reloaded == LoadEmbeddings(NewServiceState(svc.gemini_service), files)

\* C15: a new service that loads what the instance in use has saved holds the
\* same mapping and cached scores and answers every job and top_k with the
\* same outcome and list as the saving instance.
C15_SaveLoadRoundTrip ==
  SavedHere
  => /\ Reloaded.load = "loaded"
     /\ Reloaded.svc.project_mapping = svc.project_mapping
     /\ Reloaded.svc.embeddings_cache = svc.embeddings_cache
     /\ \A job \in Jobs, top_k \in TopKs :
          LET here == FindMatchingProjects(svc, files, job, top_k, now, checksK)
              there == FindMatchingProjects(NewServiceState(svc.gemini_service),
                                            files, job, top_k, now, checksK)
          IN  here.outcome = there.outcome /\ here.result = there.result

\* C15 witness: the saved pair has three projects and the reloaded service
\* ranks two of them.
C15_Witness ==
  /\ SavedHere
  /\ Len(Reloaded.svc.project_mapping) = 3
  /\ \E job \in Jobs :
       Len(FindMatchingProjects(NewServiceState(svc.gemini_service), files, job, 2,
                                now, checksK).result) = 2

PersistedNames ==
  SeqRange(files.embeddings_file.project_mapping)
    \cup DOMAIN files.embeddings_file.embeddings_cache.projects
    \cup SeqRange(files.index_file.vecs)

SameCallAsBefore ==
  /\ last.op = "find"
  /\ prev.valid
  /\ last.job = prev.job
  /\ last.top_k = prev.top_k
  /\ svc.gemini_service = prev.gemini

\* C8: with the persisted index and cache unchanged, a find call with the job,
\* extractor answer and top_k of the call before it has the same outcome and
\* returns the same sequence of (project, score) pairs, on whatever day and
\* on whichever instance it is made.
C8_RepeatedFindIsDeterministic ==
  SameCallAsBefore
  => (last.outcome = prev.outcome /\ last.result = prev.result)

\* C8 witness: the call is repeated forty days later and ranks a project
\* whose recency band has changed in between.
C8_Witness ==
  /\ SameCallAsBefore
  /\ now # prev.now
  /\ Len(last.result) >= 2
  /\ "p3" \in ResultNames(last.result)
  /\ last.result = prev.result

\* C16: _normalize_technologies is idempotent: normalizing its output gives
\* the same sequence, element for element.
C16_NormalizeIsIdempotent ==
  calc.op = "normalize" => NormalizeTechnologies(calc.out_seq) = calc.out_seq

\* C16 witness: aliases, capitals and a duplicate were folded.
C16_Witness ==
  /\ calc.op = "normalize"
  /\ calc.technologies = <<"React.js", "reactjs", "PY">>
  /\ calc.out_seq = <<"react", "python">>

\* C17: the quality score lies in [0, 2.0], the technology overlap score in
\* [0, 1.5] and the recency score in [0.2, 1.0], a missing and a future
\* timestamp included.
C17_ScoresInRange ==
  /\ calc.op = "quality" => (0 <= calc.out /\ calc.out <= 20000)
  /\ calc.op = "overlap" => (0 <= calc.out /\ calc.out <= 450)
  /\ calc.op = "recency" => (2 <= calc.out /\ calc.out <= 10)

\* C17 witness: a project more than two years old takes the lowest band.
C17_Witness ==
  /\ calc.op = "recency"
  /\ now - calc.created_at > 730
  /\ calc.created_at >= 0
  /\ calc.out = 2

\* C18: the stars bonus is that of the highest tier the project reaches:
\* 1.6 above 100 stars, 1.4 for 51..100, 1.2 for 11..50, 1.0 otherwise.
C18_StarsHighestTier ==
  calc.op = "quality"
  => calc.stars_factor = (IF calc.stars > 100 THEN 16
                          ELSE IF calc.stars > 50 THEN 14
                          ELSE IF calc.stars > 10 THEN 12
                          ELSE 10)

\* C19: the forks bonus is 1.3 above 20 forks, 1.1 for 6..20, 1.0 otherwise.
C19_ForksTiers ==
  calc.op = "quality"
  => calc.forks_factor = (IF calc.forks > 20 THEN 13
                          ELSE IF calc.forks > 5 THEN 11
                          ELSE 10)

\* C20: the diversity bonus is 1.2 above 6 technologies, 1.1 for 4..6,
\* 1.0 otherwise.
C20_DiversityTiers ==
  calc.op = "quality"
  => calc.diversity_factor = (IF Len(calc.technologies) > 6 THEN 12
                              ELSE IF Len(calc.technologies) > 3 THEN 11
                              ELSE 10)

\* The bands of the recency step function, in 1/10, by age in whole days.
RecencyBand(age) ==
  IF age <= 30 THEN 10
  ELSE IF age <= 90 THEN 9
  ELSE IF age <= 180 THEN 8
  ELSE IF age <= 365 THEN 6
  ELSE IF age <= 730 THEN 4
  ELSE 2

\* C21: the recency score of a project with a timestamp is the band of the
\* timestamp's age in whole days (1.0 up to 30 days, 0.9 up to 90, 0.8 up to
\* 180, 0.6 up to 365, 0.4 up to 730, 0.2 beyond), and no older timestamp
\* scores higher.
C21_RecencyIsStepFunction ==
  (calc.op = "recency" /\ calc.created_at >= 0)
  => /\ calc.out = RecencyBand(now - calc.created_at)
     /\ \A older \in CreatedAtValues :
          (older >= 0 /\ older <= calc.created_at)
          => CalculateRecencyScore(CalcProject(0, 0, 0, FALSE, FALSE, older), now)
               <= calc.out

\* C21 witness: a timestamp 366 days old has just left the one-year band.
C21_Witness ==
  /\ calc.op = "recency"
  /\ now - calc.created_at = 366
  /\ calc.out = 4

\* C22: the recency score a rebuild stores for a project is the band of the
\* age of its updated_at on the day of the rebuild: 1.0 for a project updated
\* 10 days ago, 0.2 for one updated 800 days ago, whatever its creation date.
C22_RecencyFollowsUpdatedAt ==
  (last.op = "rebuild" /\ rebuilt.visible # {})
  => \A n \in rebuilt.visible :
       svc.embeddings_cache.recency_scores[n]
         = RecencyBand(now - svc.embeddings_cache.projects[n].updated_at)

\* The overlap score of a set of project technologies against a set of job
\* technologies, in 1/300: the share of the job's technologies the project
\* has, times 1.2 when it has any and has at least as many as the job asks
\* for, at most 1.5; 0 for a job without technologies.
OverlapOfSets(project_set, job_set) ==
  IF job_set = {} THEN 0
  ELSE LET common == Cardinality(project_set \cap job_set)
           bonus == common > 0 /\ Cardinality(project_set) >= Cardinality(job_set)
       IN  Min(((IF bonus THEN 360 ELSE 300) * common) \div Cardinality(job_set), 450)

\* C23: in the candidate loop the core and the secondary overlap are those of
\* the normalized project technologies against the normalized job
\* technologies: spellings that differ by case, padding or a known alias
\* meet in the intersection.
C23_OverlapNormalizesBothSides ==
  calc.op = "score"
  => /\ calc.score.core_tech_overlap
          = OverlapOfSets(SeqRange(NormalizeTechnologies(calc.project.technologies)),
                          SeqRange(NormalizeTechnologies(calc.info.core_technologies)))
     /\ calc.score.secondary_tech_overlap
          = OverlapOfSets(SeqRange(NormalizeTechnologies(calc.project.technologies)),
                          SeqRange(NormalizeTechnologies(calc.info.secondary_technologies)))

\* Every element is a canonical token: the normalizer leaves it as it is.
AlreadyNormalized(technologies) ==
  \A i \in 1 .. Len(technologies) :
    /\ technologies[i] # ""
    /\ TechNormalize(LowerStrip(technologies[i])) = technologies[i]

DomainBonusApplies(project, info) ==
  \E w \in SeqRange(info.domain_context) :
    WordLen(w) > 3 /\ w \in project.detailed_paragraph

\* C25: a candidate's final score, in 1/600000000, is
\* (0.35 semantic + 0.4 (0.8 core + 0.2 secondary) + 0.15 recency + 0.1 quality)
\* times one README factor (0.5 if no_readme, else 0.7 if bad_readme, else 1),
\* times one core-match factor (1.3 above 0.6, else 1.15 above 0.3, else 1),
\* times 1.1 when the domain bonus applies.
C25_FinalScoreFormula ==
  calc.op = "score"
  => LET s == calc.score
         weighted == 1050 * s.semantic_score
                       + 40 * (8 * s.core_tech_overlap + 2 * s.secondary_tech_overlap)
                       + 4500 * s.recency_score
                       + 3 * s.quality_score
         readme == IF calc.project.no_readme THEN 5
                   ELSE IF calc.project.bad_readme THEN 7 ELSE 10
         core == IF s.core_tech_overlap > 180 THEN 26
                 ELSE IF s.core_tech_overlap > 90 THEN 23 ELSE 20
         domain == IF DomainBonusApplies(calc.project, calc.info) THEN 11 ELSE 10
     IN  s.final_score = weighted * readme * core * domain

\* C25 witness: a project with both README flags set, a core overlap of
\* exactly 0.6 and a domain word in its paragraph takes 0.5, 1.15 and 1.1.
C25_Witness ==
  /\ calc.op = "score"
  /\ calc.project.no_readme
  /\ calc.project.bad_readme
  /\ calc.score.core_tech_overlap = 180
  /\ DomainBonusApplies(calc.project, calc.info)
  /\ calc.score.semantic_score = 100
  /\ calc.score.final_score
       = (105000 + 40 * (1440 + 2 * calc.score.secondary_tech_overlap)
            + 4500 * calc.score.recency_score + 3 * calc.score.quality_score) * 1265

\* The place of a candidate in the search order.
SearchRank(name) == CHOOSE i \in 1 .. Len(calc.candidates) : calc.candidates[i].name = name

\* C26: of two candidates with equal final scores the one earlier in the
\* search order comes first in the result, and when only one of them fits
\* under top_k it is the earlier one that is kept.
C26_TiesKeepSearchOrder ==
  calc.op = "rank"
  => /\ \A i, j \in 1 .. Len(calc.ranked) :
          (i < j /\ calc.ranked[i].final_score = calc.ranked[j].final_score)
          => SearchRank(calc.ranked[i].name) < SearchRank(calc.ranked[j].name)
     /\ \A i \in 1 .. Len(calc.ranked), k \in 1 .. Len(calc.candidates) :
          (/\ calc.candidates[k].name \notin {calc.ranked[j].name : j \in 1 .. Len(calc.ranked)}
           /\ calc.candidates[k].final_score = calc.ranked[i].final_score)
          => SearchRank(calc.ranked[i].name) < k

\* C26 witness: the second and third candidate tie above the first and
\* top_k is 1: the second is returned.
C26_Witness ==
  /\ calc.op = "rank"
  /\ calc.top_k = 1
  /\ Len(calc.candidates) = 3
  /\ calc.candidates[1].final_score < calc.candidates[2].final_score
  /\ calc.candidates[2].final_score = calc.candidates[3].final_score
  /\ Len(calc.ranked) = 1
  /\ calc.ranked[1].name = calc.candidates[2].name

C28_FindIsReadOnly ==
  [][(last.op = "none" /\ last'.op \in {"find", "match_route"})
     => /\ files' = files
        /\ svc.index.present
             => /\ svc'.index = svc.index
                /\ svc'.project_mapping = svc.project_mapping
                /\ svc'.embeddings_cache = svc.embeddings_cache]_vars

\* C28 witness: with the index in memory and the index file damaged on disk
\* a find call has raised from the search, and the index is still in memory.
C28_Witness ==
  /\ last.op = "find"
  /\ last.load = "none"
  /\ last.outcome = "SearchError"
  /\ svc.index.present
  /\ Len(svc.project_mapping) = 3
  /\ files.index_file.state = "corrupt"

C30_EmptyMatchIsNotFound ==
  last.op = "match_route"
  => /\ (last.outcome = "ok" /\ last.result = <<>>) => last.status = 404
     /\ last.status = 500 => last.outcome # "ok"

====
